---- MODULE Spec2Model ----
(***************************************************************************)
(* State-machine model of igor-kats/AWS-scripts:                           *)
(*   idle-gateways-detector/idle_gw.py  (metric collection and analysis)   *)
(*   ecr_cleaner.py                     (ECR image cleanup command)        *)
(* Times are seconds since the Unix epoch, as in datetime arithmetic.      *)
(***************************************************************************)
EXTENDS Integers, Sequences, FiniteSets, TLC

(***************************************************************************)
(* Program constants of idle_gw.py                                         *)
(***************************************************************************)
NAT_METRICS ==
    << "BytesInFromDestination", "BytesInFromSource",
       "BytesOutToDestination", "BytesOutToSource",
       "PacketsInFromDestination", "PacketsInFromSource",
       "PacketsOutToDestination", "PacketsOutToSource",
       "ConnectionAttemptCount", "ConnectionEstablishedCount",
       "ErrorPortAllocation", "IdleTimeoutCount",
       "ActiveConnectionCount", "ConnectionEstablishedRate" >>

IGW_METRICS ==
    << "BytesInFromDestination", "BytesOutToDestination",
       "PacketsInFromDestination", "PacketsOutToDestination",
       "BytesDropCountBlackholeIPv4", "BytesDropCountNoRouteIPv4",
       "PacketsDropCountBlackholeIPv4", "PacketsDropCountNoRouteIPv4" >>

PERIOD_SECONDS == 21600

DaySeconds == 24 * 3600

\* chunk_size = datetime.timedelta(days=30)
ChunkDays == 30

chunk_size == ChunkDays * DaySeconds

(***************************************************************************)
(* Bounds of the model                                                     *)
(***************************************************************************)
\* largest --days value of the wide family of runs
MaxDays == 65

\* largest number of datapoints CloudWatch holds in the rich family of runs
MaxDatapoints == 2

\* largest number of rows of a sample table handed to analyze_idle_time alone
MaxTableRows == 3

(***************************************************************************)
(* Generic helpers                                                         *)
(***************************************************************************)
Min(a, b) == IF a < b THEN a ELSE b

Range(s) == { s[i] : i \in DOMAIN s }

RECURSIVE SumSet(_, _)
\* sum of f[x] over the finite set S
SumSet(S, f) ==
    IF S = {} THEN 0
    ELSE LET x == CHOOSE y \in S : TRUE IN f[x] + SumSet(S \ {x}, f)

RECURSIVE KSubsets(_, _)
\* the subsets of S with at most k elements
KSubsets(S, k) ==
    IF k = 0 \/ S = {} THEN {{}}
    ELSE LET x == CHOOSE y \in S : TRUE
             rest == S \ {x}
         IN KSubsets(rest, k) \cup { T \cup {x} : T \in KSubsets(rest, k - 1) }

RECURSIVE Orderings(_)
\* the lists that hold each element of the finite set S once, in any order
Orderings(S) ==
    IF S = {} THEN { << >> }
    ELSE UNION { { << x >> \o rest : rest \in Orderings(S \ {x}) } : x \in S }

(***************************************************************************)
(* State                                                                   *)
(***************************************************************************)
VARIABLES
    days,            \* args.days
    end_time,        \* datetime.now(timezone.utc) taken by collect_metrics
    nats,            \* paginate_nat_gateways(ec2): list of NatGatewayId
    igws,            \* paginate_internet_gateways(ec2): list of InternetGatewayId
    cw_data,         \* datapoints CloudWatch holds
    cw_listed,       \* (gateway, metric) pairs list_metrics reports
    pc,              \* position of main / collect_metrics
    phase,           \* "NAT" or "IGW": which loop of collect_metrics runs
    gi,              \* index of the current gateway in its list
    mi,              \* index of the current metric in its catalog
    chunk_start,     \* get_metric_data_chunked: chunk_start
    all_datapoints,  \* get_metric_data_chunked: all_datapoints
    results,         \* collect_metrics: results (rows of the DataFrame)
    calls,           \* API calls issued so far, in order
    idle_analysis,   \* analyze_idle_time's output
    \* ecr_cleaner.py, the cleanup command
    exclude,         \* args.exclude: list of patterns
    dry_run,         \* args.dry_run
    name_filter,     \* args.filter
    registry,        \* the images ECR holds, [repository, digest, tags], in the
                     \* order describe_images lists them
    ecr_pc,          \* position of cmd_cleanup
    images,          \* cmd_cleanup: images
    printed,         \* the images listed on stdout
    raw_answer,      \* what input() returned
    answer,          \* cmd_cleanup: answer
    pending,         \* delete_images: batches not yet sent
    delete_calls     \* batch_delete_image calls issued so far, in order

gw_vars == << days, end_time, nats, igws, cw_data, cw_listed, pc, phase, gi, mi,
              chunk_start, all_datapoints, results, calls, idle_analysis >>

ecr_vars == << exclude, dry_run, name_filter, registry, ecr_pc, images, printed,
               raw_answer, answer, pending, delete_calls >>

vars == << gw_vars, ecr_vars >>

env == << days, end_time, nats, igws, cw_data, cw_listed >>

\* start_time = end_time - datetime.timedelta(days=days)
start_time == end_time - days * DaySeconds

\* ecr_cleaner.py is not running
EcrIdle ==
    /\ exclude = << >>
    /\ dry_run = FALSE
    /\ name_filter = << >>
    /\ registry = << >>
    /\ ecr_pc = "idle"
    /\ images = << >>
    /\ printed = << >>
    /\ raw_answer = << >>
    /\ answer = << >>
    /\ pending = << >>
    /\ delete_calls = << >>

\* idle_gw.py is not running
GwIdle ==
    /\ days = 0
    /\ end_time = 0
    /\ nats = << >>
    /\ igws = << >>
    /\ cw_data = {}
    /\ cw_listed = {}
    /\ pc = "idle"
    /\ phase = "NAT"
    /\ gi = 1
    /\ mi = 1
    /\ chunk_start = 0
    /\ all_datapoints = << >>
    /\ results = << >>
    /\ calls = << >>
    /\ idle_analysis = << >>

(***************************************************************************)
(* The environment: what --days, the clock, EC2 and CloudWatch can be      *)
(***************************************************************************)
\* 2024-10-04T00:00:00Z, a period boundary, and one hour later
NowChoices == { 20000 * DaySeconds, 20000 * DaySeconds + 3600 }

\* --days values of the rich family: two chunks
RichDays == { 31 }

\* the four statistics of a stored datapoint
DatapointStats ==
    { [Sum |-> 0, Average |-> 0, Maximum |-> 0, Minimum |-> 0],
      [Sum |-> 1000, Average |-> 250, Maximum |-> 400, Minimum |-> 100] }

\* the (gateway, metric) pairs CloudWatch may hold data for
DataPairs ==
    { << "nat-1", "BytesInFromSource" >>,
      << "igw-1", "BytesInFromDestination" >>,
      << "igw-1", "BytesDropCountNoRouteIPv4" >> }

AlignDown(t) == t - (t % PERIOD_SECONDS)

AlignUp(t) == AlignDown(t + PERIOD_SECONDS - 1)

\* period-aligned timestamps at the start of the range and on both sides of
\* the first chunk boundary
StampChoices(s) ==
    { AlignUp(s), AlignDown(s + chunk_size - 1), AlignUp(s + chunk_size) }

DataUniverse(s) ==
    { [gw |-> p[1], Metric |-> p[2], Timestamp |-> t, Sum |-> st.Sum,
       Average |-> st.Average, Maximum |-> st.Maximum, Minimum |-> st.Minimum] :
        p \in DataPairs, t \in StampChoices(s), st \in DatapointStats }

\* CloudWatch holds one datapoint per metric and period
OnePerPeriod(D) ==
    \A a, b \in D :
        (a.gw = b.gw /\ a.Metric = b.Metric /\ a.Timestamp = b.Timestamp) => a = b

IgwPairs == { << "igw-1", IGW_METRICS[i] >> : i \in DOMAIN IGW_METRICS }

\* what list_metrics reports in the rich family
ListedChoices == { { << "igw-1", "BytesInFromDestination" >> }, IgwPairs }

(***************************************************************************)
(* External calls                                                          *)
(***************************************************************************)
\* cloudwatch.get_metric_statistics: the answers it can give, which are the
\* datapoints of one metric with StartTime <= Timestamp < EndTime listed in
\* any order (the service promises none)
get_metric_statistics(gw, metric, StartTime, EndTime) ==
    Orderings({ [Timestamp |-> d.Timestamp, Sum |-> d.Sum, Average |-> d.Average,
                 Maximum |-> d.Maximum, Minimum |-> d.Minimum] :
                d \in { x \in cw_data : /\ x.gw = gw
                                        /\ x.Metric = metric
                                        /\ StartTime <= x.Timestamp
                                        /\ x.Timestamp < EndTime } })

\* cloudwatch.list_metrics(...)["Metrics"] is non-empty
list_metrics(gw, metric) == << gw, metric >> \in cw_listed

FetchCall(gw, metric, s, e) ==
    [op |-> "get_metric_statistics", gw |-> gw, Metric |-> metric,
     StartTime |-> s, EndTime |-> e]

ProbeCall(gw, metric) ==
    [op |-> "list_metrics", gw |-> gw, Metric |-> metric]

(***************************************************************************)
(* get_metric_data_chunked                                                 *)
(***************************************************************************)
\* a chunk end that is not clipped to the end of the range
ChunkEnd_Unclipped(cs, e) == cs + chunk_size

\* chunk_end = min(chunk_start + chunk_size, end_time)
ChunkEnd(cs, e) == Min(cs + chunk_size, e)

\* consecutive chunks that overlap by one period
NextChunkStart_Overlap(ce) == IF ce < end_time THEN ce - PERIOD_SECONDS ELSE ce

\* chunk_start = chunk_end
NextChunkStart(ce) == ce

(***************************************************************************)
(* collect_metrics                                                         *)
(***************************************************************************)
Gateways(kind) == IF kind = "NAT" THEN nats ELSE igws

Catalog(kind) == IF kind = "NAT" THEN NAT_METRICS ELSE IGW_METRICS

CurGateway == Gateways(phase)[gi]

CurMetric == Catalog(phase)[mi]

\* dp.get(key, 0)
DpGet(dp, key) == IF key \in DOMAIN dp THEN dp[key] ELSE 0

Row(kind, gw, metric, dp) ==
    [Gateway_Type |-> kind, Gateway_ID |-> gw, Metric |-> metric,
     Timestamp |-> dp.Timestamp,
     Sum |-> DpGet(dp, "Sum"), Average |-> DpGet(dp, "Average"),
     Maximum |-> DpGet(dp, "Maximum"), Minimum |-> DpGet(dp, "Minimum")]

\* for dp in datapoints: results.append({...})
DatapointRows(kind, gw, metric, dps) ==
    [i \in 1..Len(dps) |-> Row(kind, gw, metric, dps[i])]

\* a synthetic row stamped with the end of the range
SyntheticRows_AtEnd(gw, metric, dps) ==
    IF dps = << >>
    THEN << [Gateway_Type |-> "IGW", Gateway_ID |-> gw, Metric |-> metric,
             Timestamp |-> end_time,
             Sum |-> 0, Average |-> 0, Maximum |-> 0, Minimum |-> 0] >>
    ELSE << >>

\* if not datapoints: results.append({... "Timestamp": start_time, "Sum": 0, ...})
SyntheticRows(gw, metric, dps) ==
    IF dps = << >>
    THEN << [Gateway_Type |-> "IGW", Gateway_ID |-> gw, Metric |-> metric,
             Timestamp |-> start_time,
             Sum |-> 0, Average |-> 0, Maximum |-> 0, Minimum |-> 0] >>
    ELSE << >>

\* rows one metric of a NAT gateway adds to results
NatRows(gw, metric, dps) == DatapointRows("NAT", gw, metric, dps)

\* rows one metric of an Internet Gateway adds to results
IgwRows(gw, metric, dps) ==
    SyntheticRows(gw, metric, dps) \o DatapointRows("IGW", gw, metric, dps)

\* for metric in IGW_METRICS: metric_exists = cloudwatch.list_metrics(...)
NeedsProbe(kind) == kind = "IGW"

\* an exception that is swallowed, keeping the chunks fetched so far
ResultsAfterFailure_KeepPartial(res, kind, gw, metric, dps) ==
    res \o DatapointRows(kind, gw, metric, dps)

\* the rows of results after an exception left get_metric_data_chunked:
\* nothing catches it, so nothing is appended
ResultsAfterFailure(res, kind, gw, metric, dps) == res

\* where collect_metrics goes at the top of the loop over a kind's gateways
LoopEntry(kind, g) ==
    IF g <= Len(Gateways(kind))
    THEN [pc |-> IF NeedsProbe(kind) THEN "probe" ELSE "chunk_loop",
          phase |-> kind, gi |-> g, mi |-> 1]
    ELSE IF kind = "NAT"
         THEN [pc |-> "list_igws", phase |-> "IGW", gi |-> 1, mi |-> 1]
         ELSE [pc |-> "collected", phase |-> "IGW", gi |-> g, mi |-> 1]

\* where collect_metrics goes after the current metric is done
AfterMetric ==
    IF mi < Len(Catalog(phase))
    THEN [pc |-> IF NeedsProbe(phase) THEN "probe" ELSE "chunk_loop",
          phase |-> phase, gi |-> gi, mi |-> mi + 1]
    ELSE LoopEntry(phase, gi + 1)

GoTo(pos) ==
    /\ pc' = pos.pc
    /\ phase' = pos.phase
    /\ gi' = pos.gi
    /\ mi' = pos.mi
    /\ chunk_start' = start_time
    /\ all_datapoints' = << >>

(***************************************************************************)
(* analyze_idle_time                                                       *)
(***************************************************************************)
\* the catalog names with "Bytes" in m or "Packets" in m
TrafficNames ==
    { "BytesInFromDestination", "BytesInFromSource",
      "BytesOutToDestination", "BytesOutToSource",
      "PacketsInFromDestination", "PacketsInFromSource",
      "PacketsOutToDestination", "PacketsOutToSource",
      "BytesDropCountBlackholeIPv4", "BytesDropCountNoRouteIPv4",
      "PacketsDropCountBlackholeIPv4", "PacketsDropCountNoRouteIPv4" }

\* traffic_metrics = [m for m in metrics_list if "Bytes" in m or "Packets" in m]
traffic_metrics(kind) == { m \in Range(Catalog(kind)) : m \in TrafficNames }

\* Series.unique(): the distinct values in order of first appearance
Unique(s) ==
    LET first == SelectSeq([i \in 1..Len(s) |-> i],
                           LAMBDA i : \A j \in 1..(i - 1) : s[j] # s[i])
    IN [k \in 1..Len(first) |-> s[first[k]]]

RECURSIVE SeqSum(_)
\* Series.sum()
SeqSum(s) == IF s = << >> THEN 0 ELSE Head(s) + SeqSum(Tail(s))

Column(rows, col) == [i \in 1..Len(rows) |-> rows[i][col]]

\* gw[gw["Metric"].isin(names)]
IsIn(rows, names) == SelectSeq(rows, LAMBDA r : r.Metric \in names)

\* .max() in place of .sum()
GroupSum_Max(rows, names) ==
    LET S == Range(Column(IsIn(rows, names), "Sum"))
    IN IF S = {} THEN 0 ELSE CHOOSE x \in S : \A y \in S : y <= x

\* gw[gw["Metric"].isin(names)]["Sum"].sum()
GroupSum(rows, names) == SeqSum(Column(IsIn(rows, names), "Sum"))

(***************************************************************************)
(* Python floats (IEEE 754 binary64, round to nearest, ties to even).      *)
(* Integers beyond 2^31 are written as lists of base-256 digits, most      *)
(* significant first.  A float x >= 0 is [m, s]: the value m / 2^s, m a    *)
(* digit list of at most 53 bits (2^53 itself included), s >= 0.           *)
(***************************************************************************)
MantissaBits == 53

Base == 256

Zeros(k) == [i \in 1..k |-> 0]

RECURSIVE Pow2(_)
Pow2(k) == IF k = 0 THEN 1 ELSE 2 * Pow2(k - 1)

RECURSIVE Digits(_)
\* the digit list of a natural number (<< >> for 0)
Digits(n) == IF n = 0 THEN << >> ELSE Append(Digits(n \div Base), n % Base)

RECURSIVE DigitsValue(_)
\* the natural number a digit list writes
DigitsValue(a) ==
    IF a = << >> THEN 0
    ELSE Base * DigitsValue(SubSeq(a, 1, Len(a) - 1)) + a[Len(a)]

RECURSIVE Trim(_)
\* a digit list without leading zeros
Trim(a) == IF a # << >> /\ Head(a) = 0 THEN Trim(Tail(a)) ELSE a

RECURSIVE MulSmall(_, _, _)
\* a * k + carry, k and carry natural numbers
MulSmall(a, k, carry) ==
    IF a = << >> THEN Digits(carry)
    ELSE LET t == a[Len(a)] * k + carry
         IN Append(MulSmall(SubSeq(a, 1, Len(a) - 1), k, t \div Base), t % Base)

RECURSIVE DivSmall(_, _, _)
\* quotient and remainder of (rem * Base^Len(a) + a) by d, with rem < d
DivSmall(a, d, rem) ==
    IF a = << >> THEN [q |-> << >>, r |-> rem]
    ELSE LET t == rem * Base + Head(a)
             rest == DivSmall(Tail(a), d, t % d)
         IN [q |-> << t \div d >> \o rest.q, r |-> rest.r]

RECURSIVE BitLength(_)
\* the number of binary digits of a natural number
BitLength(n) == IF n = 0 THEN 0 ELSE 1 + BitLength(n \div 2)

\* the number of binary digits of a digit list without leading zeros
DigitsBitLength(a) ==
    IF a = << >> THEN 0 ELSE 8 * (Len(a) - 1) + BitLength(a[1])

\* q, or q + 1 when what was cut off is more than a half (cmp = 1) or is a
\* half (cmp = 0) and q is odd
RoundHalfEven(q, cmp) ==
    LET odd == q # << >> /\ q[Len(q)] % 2 = 1
    IN IF cmp = 1 \/ (cmp = 0 /\ odd) THEN MulSmall(q, 1, 1) ELSE q

\* a / 2^t rounded to the nearest integer, a half going to the even one
RoundShift(a, t) ==
    LET j == t \div 8
        b == t % 8
        padded == Zeros(IF j + 1 > Len(a) THEN j + 1 - Len(a) ELSE 0) \o a
        high == SubSeq(padded, 1, Len(padded) - j)
        low == SubSeq(padded, Len(padded) - j + 1, Len(padded))
        dv == DivSmall(high, Pow2(b), 0)
        lowzero == \A i \in DOMAIN low : low[i] = 0
        restzero == \A i \in DOMAIN low : i > 1 => low[i] = 0
        cmp == IF t = 0 THEN -1
               ELSE IF b >= 1
                    THEN IF dv.r > Pow2(b - 1) THEN 1
                         ELSE IF dv.r < Pow2(b - 1) THEN -1
                         ELSE IF lowzero THEN 0 ELSE 1
               ELSE IF low[1] > Base \div 2 THEN 1
                    ELSE IF low[1] < Base \div 2 THEN -1
                    ELSE IF restzero THEN 0 ELSE 1
    IN RoundHalfEven(Trim(dv.q), cmp)

RECURSIVE Log2Floor(_, _)
\* the k with 2^k <= n / d < 2^(k + 1), for n, d > 0
Log2Floor(n, d) ==
    IF n >= 2 * d THEN 1 + Log2Floor(n, 2 * d)
    ELSE IF n >= d THEN 0
    ELSE Log2Floor(2 * n, d) - 1

\* n / d on numbers that floats hold exactly (n >= 0, d > 0): the float
\* nearest to the quotient
FDiv(n, d) ==
    IF n = 0 THEN [m |-> << >>, s |-> 0]
    ELSE LET s == MantissaBits - 1 - Log2Floor(n, d)
             shifted == MulSmall(Digits(n), Pow2(s % 8), 0) \o Zeros(s \div 8)
             dv == DivSmall(shifted, d, 0)
             cmp == IF 2 * dv.r > d THEN 1 ELSE IF 2 * dv.r < d THEN -1 ELSE 0
         IN [m |-> RoundHalfEven(Trim(dv.q), cmp), s |-> s]

\* x * k for a float x and a natural number k > 0: the float nearest to the
\* product
FMul(x, k) ==
    LET product == MulSmall(x.m, k, 0)
        extra == DigitsBitLength(product) - MantissaBits
        t == IF extra > 0 THEN extra ELSE 0
    IN [m |-> RoundShift(product, t), s |-> x.s - t]

\* round(x, 2) on a float x >= 0, in hundredths: the hundredth nearest to the
\* exact value of x, a value exactly half way going to the even one
Round2(x) == DigitsValue(RoundShift(MulSmall(x.m, 100, 0), x.s))

\* round(x, 2) on a numpy.float64 x >= 0, in hundredths: numpy multiplies by
\* 100 in floating point and rounds the product to the nearest integer, a
\* half going to the even one (rint(x * 100) / 100)
Float64Round2(x) ==
    LET scaled == FMul(x, 100)
    IN DigitsValue(RoundShift(scaled.m, scaled.s))

\* df[(df["Gateway_Type"] == gateway_type) & (df["Gateway_ID"] == gateway_id)]
GatewayRows(df, kind, id) ==
    SelectSeq(df, LAMBDA r : r.Gateway_Type = kind /\ r.Gateway_ID = id)

\* df[df["Gateway_Type"] == gateway_type]["Gateway_ID"].unique()
GatewayIds(df, kind) ==
    Unique(Column(SelectSeq(df, LAMBDA r : r.Gateway_Type = kind), "Gateway_ID"))

\* periods counted per row
TotalPeriods_PerRow(gw) == Len(gw)

\* idle periods counted per row
IdlePeriods_PerRow(gw, kind) ==
    Cardinality({ j \in DOMAIN gw : /\ gw[j].Metric \in traffic_metrics(kind)
                                    /\ gw[j].Sum = 0 })

\* total_periods = len(gw["Timestamp"].unique())
TotalPeriods(gw) == Cardinality(Range(Column(gw, "Timestamp")))

\* idle_periods = len(gw[(gw["Metric"].isin(traffic_metrics)) & (gw["Sum"] == 0)]
\*                      ["Timestamp"].unique())
IdlePeriods(gw, kind) ==
    Cardinality({ gw[i].Timestamp :
                  i \in { j \in DOMAIN gw : /\ gw[j].Metric \in traffic_metrics(kind)
                                           /\ gw[j].Sum = 0 } })

\* idle_pct = (idle_periods / total_periods * 100) if total_periods > 0 else 0
\* and round(idle_pct, 2), in hundredths of a percent
IdlePercentage(idle, total) ==
    IF total > 0 THEN Round2(FMul(FDiv(idle, total), 100)) ELSE 0

MaxOf(S) == CHOOSE x \in S : \A y \in S : y <= x

nat_summary(gw) ==
    LET active == IsIn(gw, { "ActiveConnectionCount" })
    IN [Total_Bytes_In |-> GroupSum(gw, { "BytesInFromSource", "BytesInFromDestination" }),
        Total_Bytes_Out |-> GroupSum(gw, { "BytesOutToSource", "BytesOutToDestination" }),
        Total_Packets_In |->
            GroupSum(gw, { "PacketsInFromSource", "PacketsInFromDestination" }),
        Total_Packets_Out |->
            GroupSum(gw, { "PacketsOutToSource", "PacketsOutToDestination" }),
        Total_Connection_Attempts |-> GroupSum(gw, { "ConnectionAttemptCount" }),
        Total_Connection_Timeouts |-> GroupSum(gw, { "IdleTimeoutCount" }),
        Port_Allocation_Errors |-> GroupSum(gw, { "ErrorPortAllocation" }),
        Max_Active_Connections |->
            IF active # << >> THEN MaxOf(Range(Column(active, "Maximum"))) ELSE 0,
        \* the mean of Average, as << sum, count >>
        Avg_Active_Connections |->
            IF active # << >>
            THEN << SeqSum(Column(active, "Average")), Len(active) >>
            ELSE << 0, 1 >>]

\* a status that looks at the bytes/packets in/out metrics only
IgwStatus_InOutOnly(gw) ==
    IF \A i \in DOMAIN gw :
          gw[i].Metric \in { "BytesInFromDestination", "BytesOutToDestination",
                             "PacketsInFromDestination", "PacketsOutToDestination" }
          => gw[i].Sum = 0
    THEN "Inactive" ELSE "Active"

\* "Inactive" if all(gw["Sum"] == 0) else "Active"
IgwStatus(gw) ==
    IF \A i \in DOMAIN gw : gw[i].Sum = 0 THEN "Inactive" ELSE "Active"

igw_summary(gw) ==
    [Total_Bytes_In |-> GroupSum(gw, { "BytesInFromDestination" }),
     Total_Bytes_Out |-> GroupSum(gw, { "BytesOutToDestination" }),
     Total_Packets_In |-> GroupSum(gw, { "PacketsInFromDestination" }),
     Total_Packets_Out |-> GroupSum(gw, { "PacketsOutToDestination" }),
     Total_Blackhole_Drops_Bytes |-> GroupSum(gw, { "BytesDropCountBlackholeIPv4" }),
     Total_NoRoute_Drops_Bytes |-> GroupSum(gw, { "BytesDropCountNoRouteIPv4" }),
     Total_Blackhole_Drops_Packets |->
         GroupSum(gw, { "PacketsDropCountBlackholeIPv4" }),
     Total_NoRoute_Drops_Packets |-> GroupSum(gw, { "PacketsDropCountNoRouteIPv4" }),
     Status |-> IgwStatus(gw)]

\* total_bytes, total_packets, and the two rates
DerivedTotals(kindsum, total_periods) ==
    LET total_bytes == kindsum.Total_Bytes_In + kindsum.Total_Bytes_Out
        total_packets == kindsum.Total_Packets_In + kindsum.Total_Packets_Out
        secs == IF total_periods > 0 THEN total_periods * PERIOD_SECONDS ELSE 1
    IN [Total_Bytes |-> total_bytes,
        Total_Packets |-> total_packets,
        Bytes_Per_Second_Avg |-> Float64Round2(FDiv(total_bytes, secs)),
        Packets_Per_Second_Avg |-> Float64Round2(FDiv(total_packets, secs))]

\* the summary of one gateway (the body of the loop over gateways)
Summary(df, kind, id) ==
    LET gw == GatewayRows(df, kind, id)
        total_periods == TotalPeriods(gw)
        idle_periods == IdlePeriods(gw, kind)
        kindsum == IF kind = "NAT" THEN nat_summary(gw) ELSE igw_summary(gw)
    IN [Gateway_Type |-> kind,
        Gateway_ID |-> id,
        Total_Periods |-> total_periods,
        Idle_Periods |-> idle_periods,
        Idle_Percentage |-> IdlePercentage(idle_periods, total_periods)]
       @@ kindsum @@ DerivedTotals(kindsum, total_periods)

SummariesOf(df, kind) ==
    LET ids == GatewayIds(df, kind)
    IN [i \in 1..Len(ids) |-> Summary(df, kind, ids[i])]

analyze_idle_time(df) == SummariesOf(df, "NAT") \o SummariesOf(df, "IGW")

(***************************************************************************)
(* Actions of idle_gw.py: main -> collect_metrics -> analyze_idle_time     *)
(***************************************************************************)
\* for nat in paginate_nat_gateways(ec2): the listing returns
ListNats ==
    /\ pc = "list_nats"
    /\ GoTo(LoopEntry("NAT", 1))
    /\ UNCHANGED ecr_vars
    /\ UNCHANGED << env, results, calls, idle_analysis >>

\* for igw in paginate_internet_gateways(ec2): the listing returns
ListIgws ==
    /\ pc = "list_igws"
    /\ GoTo(LoopEntry("IGW", 1))
    /\ UNCHANGED ecr_vars
    /\ UNCHANGED << env, results, calls, idle_analysis >>

\* either listing raising: nothing catches it, the exception leaves
\* collect_metrics and main
ListFail ==
    /\ pc \in { "list_nats", "list_igws" }
    /\ pc' = "list_failed"
    /\ UNCHANGED ecr_vars
    /\ UNCHANGED << env, phase, gi, mi, chunk_start, all_datapoints, results,
                    calls, idle_analysis >>

\* one iteration of the while loop of get_metric_data_chunked, the fetch
\* returning normally
Fetch ==
    /\ pc = "chunk_loop"
    /\ chunk_start < end_time
    /\ LET chunk_end == ChunkEnd(chunk_start, end_time)
       IN /\ calls' = Append(calls, FetchCall(CurGateway, CurMetric,
                                              chunk_start, chunk_end))
          /\ \E response \in get_metric_statistics(CurGateway, CurMetric,
                                                    chunk_start, chunk_end) :
                all_datapoints' = all_datapoints \o response
          /\ chunk_start' = NextChunkStart(chunk_end)
    /\ UNCHANGED ecr_vars
    /\ UNCHANGED << env, pc, phase, gi, mi, results, idle_analysis >>

\* the same iteration, the fetch raising: the exception leaves
\* get_metric_data_chunked, collect_metrics and main
FetchFail ==
    /\ pc = "chunk_loop"
    /\ chunk_start < end_time
    /\ calls' = Append(calls, FetchCall(CurGateway, CurMetric, chunk_start,
                                        ChunkEnd(chunk_start, end_time)))
    /\ results' = ResultsAfterFailure(results, phase, CurGateway, CurMetric,
                                      all_datapoints)
    /\ pc' = "failed"
    /\ UNCHANGED ecr_vars
    /\ UNCHANGED << env, phase, gi, mi, chunk_start, all_datapoints, idle_analysis >>

\* get_metric_data_chunked returns to the NAT loop, which appends its rows
NatMetricDone ==
    /\ pc = "chunk_loop"
    /\ phase = "NAT"
    /\ ~(chunk_start < end_time)
    /\ results' = results \o NatRows(CurGateway, CurMetric, all_datapoints)
    /\ GoTo(AfterMetric)
    /\ UNCHANGED ecr_vars
    /\ UNCHANGED << env, calls, idle_analysis >>

\* the existence probe finds the metric: get_metric_data_chunked is entered
ProbeFound ==
    /\ pc = "probe"
    /\ list_metrics(CurGateway, CurMetric)
    /\ calls' = Append(calls, ProbeCall(CurGateway, CurMetric))
    /\ pc' = "chunk_loop"
    /\ chunk_start' = start_time
    /\ all_datapoints' = << >>
    /\ UNCHANGED ecr_vars
    /\ UNCHANGED << env, phase, gi, mi, results, idle_analysis >>

\* the existence probe finds nothing: datapoints = []
ProbeMissing ==
    /\ pc = "probe"
    /\ ~list_metrics(CurGateway, CurMetric)
    /\ calls' = Append(calls, ProbeCall(CurGateway, CurMetric))
    /\ results' = results \o IgwRows(CurGateway, CurMetric, << >>)
    /\ GoTo(AfterMetric)
    /\ UNCHANGED ecr_vars
    /\ UNCHANGED << env, idle_analysis >>

\* the existence probe raising: nothing catches it, the exception leaves
\* collect_metrics and main
ProbeFail ==
    /\ pc = "probe"
    /\ calls' = Append(calls, ProbeCall(CurGateway, CurMetric))
    /\ pc' = "failed"
    /\ UNCHANGED ecr_vars
    /\ UNCHANGED << env, phase, gi, mi, chunk_start, all_datapoints, results,
                    idle_analysis >>

\* get_metric_data_chunked returns to the IGW loop, which appends its rows
IgwMetricDone ==
    /\ pc = "chunk_loop"
    /\ phase = "IGW"
    /\ ~(chunk_start < end_time)
    /\ results' = results \o IgwRows(CurGateway, CurMetric, all_datapoints)
    /\ GoTo(AfterMetric)
    /\ UNCHANGED ecr_vars
    /\ UNCHANGED << env, calls, idle_analysis >>

\* main: if df.empty: print(...); return
MainEmpty ==
    /\ pc = "collected"
    /\ results = << >>
    /\ pc' = "no_data"
    /\ UNCHANGED ecr_vars
    /\ UNCHANGED << env, phase, gi, mi, chunk_start, all_datapoints, results,
                    calls, idle_analysis >>

\* main: idle_analysis = analyze_idle_time(df, ...)
MainAnalyze ==
    /\ pc = "collected"
    /\ results # << >>
    /\ idle_analysis' = analyze_idle_time(results)
    /\ pc' = "done"
    /\ UNCHANGED ecr_vars
    /\ UNCHANGED << env, phase, gi, mi, chunk_start, all_datapoints, results, calls >>

(***************************************************************************)
(* Specification of a run of idle_gw.py                                    *)
(***************************************************************************)
\* main up to the first loop of collect_metrics
InitProgram ==
    /\ results = << >>
    /\ calls = << >>
    /\ idle_analysis = << >>
    /\ chunk_start = start_time
    /\ all_datapoints = << >>
    /\ pc = "list_nats"
    /\ phase = "NAT"
    /\ gi = 1
    /\ mi = 1

\* runs over every look-back length, CloudWatch holding no data
EnvWide ==
    /\ days \in -1..MaxDays
    /\ end_time \in NowChoices
    /\ nats \in { << >>, << "nat-1" >> }
    /\ igws \in { << >>, << "igw-1" >> }
    /\ cw_data = {}
    /\ cw_listed \in { {}, IgwPairs }

\* runs over two chunks, CloudWatch holding up to MaxDatapoints datapoints
EnvRich ==
    /\ days \in RichDays
    /\ end_time \in NowChoices
    /\ nats = << "nat-1" >>
    /\ igws = << "igw-1" >>
    /\ cw_data \in { D \in KSubsets(DataUniverse(start_time), MaxDatapoints) :
                       OnePerPeriod(D) }
    /\ cw_listed \in ListedChoices

Init == (EnvWide \/ EnvRich) /\ InitProgram /\ EcrIdle

Next ==
    \/ ListNats
    \/ ListIgws
    \/ ListFail
    \/ Fetch
    \/ FetchFail
    \/ NatMetricDone
    \/ ProbeFound
    \/ ProbeMissing
    \/ ProbeFail
    \/ IgwMetricDone
    \/ MainEmpty
    \/ MainAnalyze

Spec == Init /\ [][Next]_vars

(***************************************************************************)
(* Properties of get_metric_data_chunked and collect_metrics               *)
(***************************************************************************)
AllPairs ==
    { << "NAT", nats[g], NAT_METRICS[m] >> : g \in DOMAIN nats, m \in DOMAIN NAT_METRICS }
    \cup
    { << "IGW", igws[g], IGW_METRICS[m] >> : g \in DOMAIN igws, m \in DOMAIN IGW_METRICS }

\* the fetches issued for one (gateway, metric) pair, in order
FetchesOf(gw, metric) ==
    SelectSeq(calls, LAMBDA c : /\ c.op = "get_metric_statistics"
                                /\ c.gw = gw
                                /\ c.Metric = metric)

ProbesOf(gw) == SelectSeq(calls, LAMBDA c : c.op = "list_metrics" /\ c.gw = gw)

RowsOf(gw, metric) ==
    SelectSeq(results, LAMBDA r : r.Gateway_ID = gw /\ r.Metric = metric)

\* collect_metrics has returned
Collected == pc \in { "collected", "done", "no_data" }

\* get_metric_data_chunked is still inside its loop for this pair, or was
\* left by an exception
InProgress(gw, metric) ==
    /\ pc \in { "chunk_loop", "failed" }
    /\ gw = CurGateway
    /\ metric = CurMetric
    /\ (pc = "chunk_loop" => chunk_start < end_time)

Durations(F) == [i \in 1..Len(F) |-> F[i].EndTime - F[i].StartTime]

\* C1: the sub-intervals fetched for a (gateway, metric) pair start at start,
\* each starts where the previous one ended, each is non-empty and at most 30
\* days long, and once the chunker has returned the last one ends at end; a
\* range with start < end is fetched at least once, and a 65-day range in
\* exactly three fetches of 30, 30 and 5 days.
C1_ChunksCoverRange ==
    \A p \in AllPairs :
        LET F == FetchesOf(p[2], p[3])
        IN /\ F # << >> =>
                /\ start_time < end_time
                /\ F[1].StartTime = start_time
                /\ \A i \in DOMAIN F :
                      /\ F[i].StartTime < F[i].EndTime
                      /\ F[i].EndTime - F[i].StartTime <= ChunkDays * DaySeconds
                /\ \A i \in 1..(Len(F) - 1) : F[i + 1].StartTime = F[i].EndTime
                /\ ~InProgress(p[2], p[3]) => F[Len(F)].EndTime = end_time
                /\ (~InProgress(p[2], p[3]) /\ days = 65) =>
                      Durations(F) = << 30 * DaySeconds, 30 * DaySeconds, 5 * DaySeconds >>
           /\ (Collected /\ p[1] = "NAT" /\ start_time < end_time) => F # << >>

C1_Witness ==
    /\ Collected
    /\ days = 65
    /\ \E p \in AllPairs : Len(FetchesOf(p[2], p[3])) = 3

\* the existence probe of this pair was made and returned (the last call of
\* a failed run is the one that raised)
ProbeAnswered(gw, metric) ==
    /\ ProbeCall(gw, metric) \in Range(calls)
    /\ ~(pc = "failed" /\ calls[Len(calls)] = ProbeCall(gw, metric))

\* C3: an Internet Gateway metric whose probe reported nothing is never
\* fetched and has exactly one row, all zero, stamped with start; NAT gateways
\* are never probed and, when the range is not empty, every catalog metric of
\* theirs is fetched.
C3_ProbePolicy ==
    /\ \A g \in DOMAIN igws, m \in DOMAIN IGW_METRICS :
          (/\ ProbeAnswered(igws[g], IGW_METRICS[m])
           /\ ~list_metrics(igws[g], IGW_METRICS[m]))
          => /\ FetchesOf(igws[g], IGW_METRICS[m]) = << >>
             /\ RowsOf(igws[g], IGW_METRICS[m]) =
                    << [Gateway_Type |-> "IGW", Gateway_ID |-> igws[g],
                        Metric |-> IGW_METRICS[m], Timestamp |-> start_time,
                        Sum |-> 0, Average |-> 0, Maximum |-> 0, Minimum |-> 0] >>
    /\ \A g \in DOMAIN nats :
          /\ ProbesOf(nats[g]) = << >>
          /\ (Collected /\ start_time < end_time) =>
                \A m \in DOMAIN NAT_METRICS : FetchesOf(nats[g], NAT_METRICS[m]) # << >>

C3_Witness ==
    /\ Collected
    /\ start_time < end_time
    /\ nats # << >>
    /\ \E g \in DOMAIN igws, m \in DOMAIN IGW_METRICS :
          /\ ProbeAnswered(igws[g], IGW_METRICS[m])
          /\ ~list_metrics(igws[g], IGW_METRICS[m])

\* C4: when a chunk's fetch fails, the run fails with no row of the failing
\* (gateway, metric) pair in the table: neither the datapoints of its earlier
\* chunks nor a zero-valued row; and no analysis is produced.
C4_FailureDiscardsPartial ==
    pc = "failed" =>
        /\ RowsOf(CurGateway, CurMetric) = << >>
        /\ idle_analysis = << >>

C4_Witness ==
    /\ pc = "failed"
    /\ all_datapoints # << >>

\* C5: no two rows of the table share (Gateway_ID, Metric, Timestamp).
C5_NoDuplicateSamples ==
    \A i, j \in DOMAIN results :
        (/\ results[i].Gateway_ID = results[j].Gateway_ID
         /\ results[i].Metric = results[j].Metric
         /\ results[i].Timestamp = results[j].Timestamp) => i = j

\* two rows of one metric that came from two different chunks
C5_Witness ==
    \E i, j \in DOMAIN results :
        /\ results[i].Gateway_ID = results[j].Gateway_ID
        /\ results[i].Metric = results[j].Metric
        /\ results[i].Timestamp < start_time + chunk_size
        /\ results[j].Timestamp >= start_time + chunk_size

\* C6: once a run over a non-empty range is over, every enumerated gateway,
\* NAT or IGW, has at least one row in the table and a summary.
C6_EveryGatewayReported ==
    (pc \in { "done", "no_data" } /\ start_time < end_time) =>
        \A id \in Range(nats) \cup Range(igws) :
            /\ \E i \in DOMAIN results : results[i].Gateway_ID = id
            /\ \E i \in DOMAIN idle_analysis : idle_analysis[i].Gateway_ID = id

(***************************************************************************)
(* analyze_idle_time on its own: sample tables drawn from a bounded family *)
(***************************************************************************)
T1 == 20000 * DaySeconds

T2 == T1 + PERIOD_SECONDS

T3 == T2 + PERIOD_SECONDS

\* (kind, gateway, metric) triples the drawn tables have rows for
TablePairs ==
    { << "NAT", "nat-1", m >> : m \in { "BytesInFromSource", "BytesInFromDestination",
                                        "BytesOutToSource", "ConnectionAttemptCount" } }
    \cup { << "NAT", "nat-2", "BytesInFromSource" >> }
    \cup { << "IGW", "igw-1", m >> : m \in { "BytesOutToDestination",
                                             "PacketsDropCountNoRouteIPv4" } }

RowUniverse ==
    { Row(p[1], p[2], p[3], [Timestamp |-> t] @@ st) :
        p \in TablePairs, t \in { T1, T2 }, st \in DatapointStats }

\* the lists made of a list of A followed by a list of B
Concat(A, B) == { a \o b : a \in A, b \in B }

RECURSIVE ConcatAll(_)
\* the lists made of a list of each set of ss, in the order of ss
ConcatAll(ss) ==
    IF ss = << >> THEN { << >> } ELSE Concat(Head(ss), ConcatAll(Tail(ss)))

\* the orders in which collect_metrics can have appended the rows S of one
\* gateway: metric by metric in catalog order, the datapoints of a metric in
\* the order CloudWatch answered
MetricOrders(S, kind, id) ==
    ConcatAll([m \in DOMAIN Catalog(kind) |->
                 Orderings({ r \in S : /\ r.Gateway_Type = kind
                                       /\ r.Gateway_ID = id
                                       /\ r.Metric = Catalog(kind)[m] })])

\* the same for the gateways of one kind, in any order EC2 may list them
KindOrders(S, kind) ==
    UNION { ConcatAll([i \in DOMAIN ids |-> MetricOrders(S, kind, ids[i])]) :
              ids \in Orderings({ r.Gateway_ID :
                                    r \in { x \in S : x.Gateway_Type = kind } }) }

\* the tables collect_metrics can build from the rows S: NAT gateways first
CollectOrders(S) == Concat(KindOrders(S, "NAT"), KindOrders(S, "IGW"))

\* nat-1 over three periods, every NAT metric reported in each: all zero at T1
\* and T3, BytesInFromSource = 1000 (and the rest zero) at T2
Nat1Scenario ==
    LET stamps == << T1, T2, T3 >>
        n == Len(stamps)
    IN [k \in 1..(n * Len(NAT_METRICS)) |->
          LET m == NAT_METRICS[((k - 1) \div n) + 1]
              t == stamps[((k - 1) % n) + 1]
              v == IF t = T2 /\ m = "BytesInFromSource" THEN 1000 ELSE 0
          IN Row("NAT", "nat-1", m,
                 [Timestamp |-> t, Sum |-> v, Average |-> v, Maximum |-> v,
                  Minimum |-> v])]

\* a table holds one row per (gateway, metric, timestamp)
OneRowPerSample(S) ==
    \A a, b \in S :
        (/\ a.Gateway_ID = b.Gateway_ID
         /\ a.Metric = b.Metric
         /\ a.Timestamp = b.Timestamp) => a = b

\* the sets of at most k rows a table can hold
SampleSets(k) == { X \in KSubsets(RowUniverse, k) : OneRowPerSample(X) }

\* main at the call of analyze_idle_time, df being a table of at most
\* MaxTableRows rows in any order collect_metrics can give it, or the nat-1
\* scenario
InitAnalyze ==
    /\ days = 1
    /\ end_time = T3 + PERIOD_SECONDS
    /\ nats = << >>
    /\ igws = << >>
    /\ cw_data = {}
    /\ cw_listed = {}
    /\ pc = "collected"
    /\ phase = "IGW"
    /\ gi = 1
    /\ mi = 1
    /\ chunk_start = start_time
    /\ all_datapoints = << >>
    /\ calls = << >>
    /\ idle_analysis = << >>
    /\ \/ \E S \in SampleSets(MaxTableRows) : results \in CollectOrders(S)
       \/ results = Nat1Scenario
    /\ EcrIdle

NextAnalyze == MainEmpty \/ MainAnalyze

SpecAnalyze == InitAnalyze /\ [][NextAnalyze]_vars

(***************************************************************************)
(* Properties of analyze_idle_time                                         *)
(***************************************************************************)
\* the (kind, id) pairs of the gateways that have rows in the table
TableGateways ==
    { << results[i].Gateway_Type, results[i].Gateway_ID >> : i \in DOMAIN results }

\* indexes of the rows of one gateway
RowIdx(kind, id) ==
    { i \in DOMAIN results : /\ results[i].Gateway_Type = kind
                             /\ results[i].Gateway_ID = id }

\* indexes of the summaries of one gateway
SummaryIdx(kind, id) ==
    { i \in DOMAIN idle_analysis : /\ idle_analysis[i].Gateway_Type = kind
                                   /\ idle_analysis[i].Gateway_ID = id }

StampsOf(kind, id) == { results[i].Timestamp : i \in RowIdx(kind, id) }

\* timestamps of a gateway at which a traffic metric was observed and every
\* traffic metric observed has Sum = 0
IdleStamps(kind, id) ==
    LET traffic == { i \in RowIdx(kind, id) :
                       results[i].Metric \in traffic_metrics(kind) }
    IN { t \in StampsOf(kind, id) :
           /\ \E i \in traffic : results[i].Timestamp = t
           /\ \A i \in traffic : results[i].Timestamp = t => results[i].Sum = 0 }

\* C2: Idle_Periods is the number of timestamps at which every traffic metric
\* observed has Sum = 0; in the nat-1 scenario the summary reads 3 periods,
\* 2 idle, 66.67 percent.
C2_IdleNeedsAllTrafficZero ==
    pc = "done" =>
        /\ \A s \in Range(idle_analysis) :
              s.Idle_Periods = Cardinality(IdleStamps(s.Gateway_Type, s.Gateway_ID))
        /\ results = Nat1Scenario =>
              /\ idle_analysis[1].Total_Periods = 3
              /\ idle_analysis[1].Idle_Periods = 2
              /\ idle_analysis[1].Idle_Percentage = 6667

\* C7: every gateway of the table has one summary, whose Total_Periods is the
\* number of distinct timestamps among all its rows.
C7_TotalPeriodsDistinct ==
    pc = "done" =>
        \A g \in TableGateways :
            /\ Cardinality(SummaryIdx(g[1], g[2])) = 1
            /\ \A i \in SummaryIdx(g[1], g[2]) :
                  idle_analysis[i].Total_Periods = Cardinality(StampsOf(g[1], g[2]))

\* a gateway with one timestamp reported by two metrics
C7_Witness ==
    /\ pc = "done"
    /\ \E i, j \in DOMAIN results :
          /\ i # j
          /\ results[i].Gateway_ID = results[j].Gateway_ID
          /\ results[i].Metric # results[j].Metric
          /\ results[i].Timestamp = results[j].Timestamp

\* C8: an Internet Gateway is "Inactive" exactly when every one of its rows,
\* whatever the metric, has Sum = 0.
C8_IgwStatus ==
    pc = "done" =>
        \A s \in Range(idle_analysis) :
            s.Gateway_Type = "IGW" =>
                /\ s.Status \in { "Inactive", "Active" }
                /\ s.Status = "Inactive" <=>
                      \A i \in RowIdx("IGW", s.Gateway_ID) : results[i].Sum = 0

\* an Internet Gateway whose only nonzero row is a drop counter
C8_Witness ==
    /\ pc = "done"
    /\ \E s \in Range(idle_analysis) :
          /\ s.Gateway_Type = "IGW"
          /\ s.Status = "Active"
          /\ s.Total_Bytes = 0
          /\ s.Total_Packets = 0
          /\ \E i \in RowIdx("IGW", s.Gateway_ID) : results[i].Sum = 0

\* the metric groups of the grouped totals
TotalGroups(kind) ==
    IF kind = "NAT"
    THEN [Total_Bytes_In |-> { "BytesInFromSource", "BytesInFromDestination" },
          Total_Bytes_Out |-> { "BytesOutToSource", "BytesOutToDestination" },
          Total_Packets_In |-> { "PacketsInFromSource", "PacketsInFromDestination" },
          Total_Packets_Out |-> { "PacketsOutToSource", "PacketsOutToDestination" }]
    ELSE [Total_Bytes_In |-> { "BytesInFromDestination" },
          Total_Bytes_Out |-> { "BytesOutToDestination" },
          Total_Packets_In |-> { "PacketsInFromDestination" },
          Total_Packets_Out |-> { "PacketsOutToDestination" }]

\* the sum of Sum over the rows of a gateway whose metric is in a group
RowsTotal(kind, id, group) ==
    SumSet({ i \in RowIdx(kind, id) : results[i].Metric \in group },
           [i \in DOMAIN results |-> results[i].Sum])

\* C9: each grouped total is the sum of Sum over the rows of its metric group
\* (0 for a group without rows), Total_Bytes = Total_Bytes_In + Total_Bytes_Out
\* and Total_Packets = Total_Packets_In + Total_Packets_Out.
C9_GroupedTotals ==
    pc = "done" =>
        \A s \in Range(idle_analysis) :
            /\ \A f \in DOMAIN TotalGroups(s.Gateway_Type) :
                  s[f] = RowsTotal(s.Gateway_Type, s.Gateway_ID,
                                   TotalGroups(s.Gateway_Type)[f])
            /\ s.Total_Bytes = s.Total_Bytes_In + s.Total_Bytes_Out
            /\ s.Total_Packets = s.Total_Packets_In + s.Total_Packets_Out

\* a NAT gateway with two nonzero rows in one group and no row in another
C9_Witness ==
    /\ pc = "done"
    /\ \E s \in Range(idle_analysis) :
          /\ s.Gateway_Type = "NAT"
          /\ s.Total_Bytes_In = 2000
          /\ s.Total_Bytes_Out = 0
          /\ \A i \in RowIdx("NAT", s.Gateway_ID) :
                results[i].Metric \notin TotalGroups("NAT").Total_Bytes_Out

(***************************************************************************)
(* ecr_cleaner.py.  A string the program inspects (a tag, a pattern, a     *)
(* repository name, the typed answer) is the list of its code points:      *)
(* "yes" is << 121, 101, 115 >>.                                           *)
(***************************************************************************)
\* for i in range(0, len(repo_images), 100)
BatchSize == 100

\* largest number of images the registry holds
MaxImages == 3

\* the characters str.lower() changes (Unicode 14.0, the database of Python
\* 3.11), as runs << first, last, step, offset >>: every step-th code point
\* from first to last lowers to itself plus offset
LowerRuns ==
    << << 65, 90, 1, 32 >>, << 192, 214, 1, 32 >>, << 216, 222, 1, 32 >>, << 256, 302, 2, 1 >>,
       << 306, 310, 2, 1 >>, << 313, 327, 2, 1 >>, << 330, 374, 2, 1 >>, << 376, 376, 1, -121 >>,
       << 377, 381, 2, 1 >>, << 385, 385, 1, 210 >>, << 386, 388, 2, 1 >>, << 390, 390, 1, 206 >>,
       << 391, 391, 1, 1 >>, << 393, 394, 1, 205 >>, << 395, 395, 1, 1 >>, << 398, 398, 1, 79 >>,
       << 399, 399, 1, 202 >>, << 400, 400, 1, 203 >>, << 401, 401, 1, 1 >>, << 403, 403, 1, 205 >>,
       << 404, 404, 1, 207 >>, << 406, 406, 1, 211 >>, << 407, 407, 1, 209 >>, << 408, 408, 1, 1 >>,
       << 412, 412, 1, 211 >>, << 413, 413, 1, 213 >>, << 415, 415, 1, 214 >>, << 416, 420, 2, 1 >>,
       << 422, 422, 1, 218 >>, << 423, 423, 1, 1 >>, << 425, 425, 1, 218 >>, << 428, 428, 1, 1 >>,
       << 430, 430, 1, 218 >>, << 431, 431, 1, 1 >>, << 433, 434, 1, 217 >>, << 435, 437, 2, 1 >>,
       << 439, 439, 1, 219 >>, << 440, 440, 1, 1 >>, << 444, 444, 1, 1 >>, << 452, 452, 1, 2 >>,
       << 453, 453, 1, 1 >>, << 455, 455, 1, 2 >>, << 456, 456, 1, 1 >>, << 458, 458, 1, 2 >>,
       << 459, 475, 2, 1 >>, << 478, 494, 2, 1 >>, << 497, 497, 1, 2 >>, << 498, 500, 2, 1 >> >>
    \o << << 502, 502, 1, -97 >>, << 503, 503, 1, -56 >>, << 504, 542, 2, 1 >>, << 544, 544, 1, -130 >>,
       << 546, 562, 2, 1 >>, << 570, 570, 1, 10795 >>, << 571, 571, 1, 1 >>, << 573, 573, 1, -163 >>,
       << 574, 574, 1, 10792 >>, << 577, 577, 1, 1 >>, << 579, 579, 1, -195 >>, << 580, 580, 1, 69 >>,
       << 581, 581, 1, 71 >>, << 582, 590, 2, 1 >>, << 880, 882, 2, 1 >>, << 886, 886, 1, 1 >>,
       << 895, 895, 1, 116 >>, << 902, 902, 1, 38 >>, << 904, 906, 1, 37 >>, << 908, 908, 1, 64 >>,
       << 910, 911, 1, 63 >>, << 913, 929, 1, 32 >>, << 931, 939, 1, 32 >>, << 975, 975, 1, 8 >>,
       << 984, 1006, 2, 1 >>, << 1012, 1012, 1, -60 >>, << 1015, 1015, 1, 1 >>, << 1017, 1017, 1, -7 >>,
       << 1018, 1018, 1, 1 >>, << 1021, 1023, 1, -130 >>, << 1024, 1039, 1, 80 >>, << 1040, 1071, 1, 32 >>,
       << 1120, 1152, 2, 1 >>, << 1162, 1214, 2, 1 >>, << 1216, 1216, 1, 15 >>, << 1217, 1229, 2, 1 >>,
       << 1232, 1326, 2, 1 >>, << 1329, 1366, 1, 48 >>, << 4256, 4293, 1, 7264 >>, << 4295, 4295, 1, 7264 >>,
       << 4301, 4301, 1, 7264 >>, << 5024, 5103, 1, 38864 >>, << 5104, 5109, 1, 8 >>, << 7312, 7354, 1, -3008 >>,
       << 7357, 7359, 1, -3008 >>, << 7680, 7828, 2, 1 >>, << 7838, 7838, 1, -7615 >>, << 7840, 7934, 2, 1 >> >>
    \o << << 7944, 7951, 1, -8 >>, << 7960, 7965, 1, -8 >>, << 7976, 7983, 1, -8 >>, << 7992, 7999, 1, -8 >>,
       << 8008, 8013, 1, -8 >>, << 8025, 8031, 2, -8 >>, << 8040, 8047, 1, -8 >>, << 8072, 8079, 1, -8 >>,
       << 8088, 8095, 1, -8 >>, << 8104, 8111, 1, -8 >>, << 8120, 8121, 1, -8 >>, << 8122, 8123, 1, -74 >>,
       << 8124, 8124, 1, -9 >>, << 8136, 8139, 1, -86 >>, << 8140, 8140, 1, -9 >>, << 8152, 8153, 1, -8 >>,
       << 8154, 8155, 1, -100 >>, << 8168, 8169, 1, -8 >>, << 8170, 8171, 1, -112 >>, << 8172, 8172, 1, -7 >>,
       << 8184, 8185, 1, -128 >>, << 8186, 8187, 1, -126 >>, << 8188, 8188, 1, -9 >>, << 8486, 8486, 1, -7517 >>,
       << 8490, 8490, 1, -8383 >>, << 8491, 8491, 1, -8262 >>, << 8498, 8498, 1, 28 >>, << 8544, 8559, 1, 16 >>,
       << 8579, 8579, 1, 1 >>, << 9398, 9423, 1, 26 >>, << 11264, 11311, 1, 48 >>, << 11360, 11360, 1, 1 >>,
       << 11362, 11362, 1, -10743 >>, << 11363, 11363, 1, -3814 >>, << 11364, 11364, 1, -10727 >>, << 11367, 11371, 2, 1 >>,
       << 11373, 11373, 1, -10780 >>, << 11374, 11374, 1, -10749 >>, << 11375, 11375, 1, -10783 >>, << 11376, 11376, 1, -10782 >>,
       << 11378, 11378, 1, 1 >>, << 11381, 11381, 1, 1 >>, << 11390, 11391, 1, -10815 >>, << 11392, 11490, 2, 1 >>,
       << 11499, 11501, 2, 1 >>, << 11506, 11506, 1, 1 >>, << 42560, 42604, 2, 1 >>, << 42624, 42650, 2, 1 >> >>
    \o << << 42786, 42798, 2, 1 >>, << 42802, 42862, 2, 1 >>, << 42873, 42875, 2, 1 >>, << 42877, 42877, 1, -35332 >>,
       << 42878, 42886, 2, 1 >>, << 42891, 42891, 1, 1 >>, << 42893, 42893, 1, -42280 >>, << 42896, 42898, 2, 1 >>,
       << 42902, 42920, 2, 1 >>, << 42922, 42922, 1, -42308 >>, << 42923, 42923, 1, -42319 >>, << 42924, 42924, 1, -42315 >>,
       << 42925, 42925, 1, -42305 >>, << 42926, 42926, 1, -42308 >>, << 42928, 42928, 1, -42258 >>, << 42929, 42929, 1, -42282 >>,
       << 42930, 42930, 1, -42261 >>, << 42931, 42931, 1, 928 >>, << 42932, 42946, 2, 1 >>, << 42948, 42948, 1, -48 >>,
       << 42949, 42949, 1, -42307 >>, << 42950, 42950, 1, -35384 >>, << 42951, 42953, 2, 1 >>, << 42960, 42960, 1, 1 >>,
       << 42966, 42968, 2, 1 >>, << 42997, 42997, 1, 1 >>, << 65313, 65338, 1, 32 >>, << 66560, 66599, 1, 40 >>,
       << 66736, 66771, 1, 40 >>, << 66928, 66938, 1, 39 >>, << 66940, 66954, 1, 39 >>, << 66956, 66962, 1, 39 >>,
       << 66964, 66965, 1, 39 >>, << 68736, 68786, 1, 64 >>, << 71840, 71871, 1, 32 >>, << 93760, 93791, 1, 32 >>,
       << 125184, 125217, 1, 34 >> >>

\* the cased characters (lowercase, uppercase or titlecase), as ranges
\* << first, last >>
CasedRanges ==
    << << 65, 90 >>, << 97, 122 >>, << 170, 170 >>, << 181, 181 >>, << 186, 186 >>, << 192, 214 >>,
       << 216, 246 >>, << 248, 442 >>, << 444, 447 >>, << 452, 659 >>, << 661, 696 >>, << 704, 705 >>,
       << 736, 740 >>, << 837, 837 >>, << 880, 883 >>, << 886, 887 >>, << 890, 893 >>, << 895, 895 >>,
       << 902, 902 >>, << 904, 906 >>, << 908, 908 >>, << 910, 929 >>, << 931, 1013 >>, << 1015, 1153 >>,
       << 1162, 1327 >>, << 1329, 1366 >>, << 1376, 1416 >>, << 4256, 4293 >>, << 4295, 4295 >>, << 4301, 4301 >>,
       << 4304, 4346 >>, << 4349, 4351 >>, << 5024, 5109 >>, << 5112, 5117 >>, << 7296, 7304 >>, << 7312, 7354 >>,
       << 7357, 7359 >>, << 7424, 7615 >>, << 7680, 7957 >>, << 7960, 7965 >>, << 7968, 8005 >>, << 8008, 8013 >>,
       << 8016, 8023 >>, << 8025, 8025 >>, << 8027, 8027 >>, << 8029, 8029 >>, << 8031, 8061 >>, << 8064, 8116 >> >>
    \o << << 8118, 8124 >>, << 8126, 8126 >>, << 8130, 8132 >>, << 8134, 8140 >>, << 8144, 8147 >>, << 8150, 8155 >>,
       << 8160, 8172 >>, << 8178, 8180 >>, << 8182, 8188 >>, << 8305, 8305 >>, << 8319, 8319 >>, << 8336, 8348 >>,
       << 8450, 8450 >>, << 8455, 8455 >>, << 8458, 8467 >>, << 8469, 8469 >>, << 8473, 8477 >>, << 8484, 8484 >>,
       << 8486, 8486 >>, << 8488, 8488 >>, << 8490, 8493 >>, << 8495, 8500 >>, << 8505, 8505 >>, << 8508, 8511 >>,
       << 8517, 8521 >>, << 8526, 8526 >>, << 8544, 8575 >>, << 8579, 8580 >>, << 9398, 9449 >>, << 11264, 11492 >>,
       << 11499, 11502 >>, << 11506, 11507 >>, << 11520, 11557 >>, << 11559, 11559 >>, << 11565, 11565 >>, << 42560, 42605 >>,
       << 42624, 42653 >>, << 42786, 42887 >>, << 42891, 42894 >>, << 42896, 42954 >>, << 42960, 42961 >>, << 42963, 42963 >>,
       << 42965, 42969 >>, << 42997, 42998 >>, << 43000, 43002 >>, << 43824, 43866 >>, << 43868, 43880 >>, << 43888, 43967 >> >>
    \o << << 64256, 64262 >>, << 64275, 64279 >>, << 65313, 65338 >>, << 65345, 65370 >>, << 66560, 66639 >>, << 66736, 66771 >>,
       << 66776, 66811 >>, << 66928, 66938 >>, << 66940, 66954 >>, << 66956, 66962 >>, << 66964, 66965 >>, << 66967, 66977 >>,
       << 66979, 66993 >>, << 66995, 67001 >>, << 67003, 67004 >>, << 67456, 67456 >>, << 67459, 67461 >>, << 67463, 67504 >>,
       << 67506, 67514 >>, << 68736, 68786 >>, << 68800, 68850 >>, << 71840, 71903 >>, << 93760, 93823 >>, << 119808, 119892 >>,
       << 119894, 119964 >>, << 119966, 119967 >>, << 119970, 119970 >>, << 119973, 119974 >>, << 119977, 119980 >>, << 119982, 119993 >>,
       << 119995, 119995 >>, << 119997, 120003 >>, << 120005, 120069 >>, << 120071, 120074 >>, << 120077, 120084 >>, << 120086, 120092 >>,
       << 120094, 120121 >>, << 120123, 120126 >>, << 120128, 120132 >>, << 120134, 120134 >>, << 120138, 120144 >>, << 120146, 120485 >>,
       << 120488, 120512 >>, << 120514, 120538 >>, << 120540, 120570 >>, << 120572, 120596 >>, << 120598, 120628 >>, << 120630, 120654 >> >>
    \o << << 120656, 120686 >>, << 120688, 120712 >>, << 120714, 120744 >>, << 120746, 120770 >>, << 120772, 120779 >>, << 122624, 122633 >>,
       << 122635, 122654 >>, << 125184, 125251 >>, << 127280, 127305 >>, << 127312, 127337 >>, << 127344, 127369 >> >>

\* the case-ignorable characters (marks, modifiers, apostrophes and the
\* like), as ranges << first, last >>
CaseIgnorableRanges ==
    << << 39, 39 >>, << 46, 46 >>, << 58, 58 >>, << 94, 94 >>, << 96, 96 >>, << 168, 168 >>,
       << 173, 173 >>, << 175, 175 >>, << 180, 180 >>, << 183, 184 >>, << 688, 879 >>, << 884, 885 >>,
       << 890, 890 >>, << 900, 901 >>, << 903, 903 >>, << 1155, 1161 >>, << 1369, 1369 >>, << 1375, 1375 >>,
       << 1425, 1469 >>, << 1471, 1471 >>, << 1473, 1474 >>, << 1476, 1477 >>, << 1479, 1479 >>, << 1524, 1524 >>,
       << 1536, 1541 >>, << 1552, 1562 >>, << 1564, 1564 >>, << 1600, 1600 >>, << 1611, 1631 >>, << 1648, 1648 >>,
       << 1750, 1757 >>, << 1759, 1768 >>, << 1770, 1773 >>, << 1807, 1807 >>, << 1809, 1809 >>, << 1840, 1866 >>,
       << 1958, 1968 >>, << 2027, 2037 >>, << 2042, 2042 >>, << 2045, 2045 >>, << 2070, 2093 >>, << 2137, 2139 >>,
       << 2184, 2184 >>, << 2192, 2193 >>, << 2200, 2207 >>, << 2249, 2306 >>, << 2362, 2362 >>, << 2364, 2364 >> >>
    \o << << 2369, 2376 >>, << 2381, 2381 >>, << 2385, 2391 >>, << 2402, 2403 >>, << 2417, 2417 >>, << 2433, 2433 >>,
       << 2492, 2492 >>, << 2497, 2500 >>, << 2509, 2509 >>, << 2530, 2531 >>, << 2558, 2558 >>, << 2561, 2562 >>,
       << 2620, 2620 >>, << 2625, 2626 >>, << 2631, 2632 >>, << 2635, 2637 >>, << 2641, 2641 >>, << 2672, 2673 >>,
       << 2677, 2677 >>, << 2689, 2690 >>, << 2748, 2748 >>, << 2753, 2757 >>, << 2759, 2760 >>, << 2765, 2765 >>,
       << 2786, 2787 >>, << 2810, 2815 >>, << 2817, 2817 >>, << 2876, 2876 >>, << 2879, 2879 >>, << 2881, 2884 >>,
       << 2893, 2893 >>, << 2901, 2902 >>, << 2914, 2915 >>, << 2946, 2946 >>, << 3008, 3008 >>, << 3021, 3021 >>,
       << 3072, 3072 >>, << 3076, 3076 >>, << 3132, 3132 >>, << 3134, 3136 >>, << 3142, 3144 >>, << 3146, 3149 >>,
       << 3157, 3158 >>, << 3170, 3171 >>, << 3201, 3201 >>, << 3260, 3260 >>, << 3263, 3263 >>, << 3270, 3270 >> >>
    \o << << 3276, 3277 >>, << 3298, 3299 >>, << 3328, 3329 >>, << 3387, 3388 >>, << 3393, 3396 >>, << 3405, 3405 >>,
       << 3426, 3427 >>, << 3457, 3457 >>, << 3530, 3530 >>, << 3538, 3540 >>, << 3542, 3542 >>, << 3633, 3633 >>,
       << 3636, 3642 >>, << 3654, 3662 >>, << 3761, 3761 >>, << 3764, 3772 >>, << 3782, 3782 >>, << 3784, 3789 >>,
       << 3864, 3865 >>, << 3893, 3893 >>, << 3895, 3895 >>, << 3897, 3897 >>, << 3953, 3966 >>, << 3968, 3972 >>,
       << 3974, 3975 >>, << 3981, 3991 >>, << 3993, 4028 >>, << 4038, 4038 >>, << 4141, 4144 >>, << 4146, 4151 >>,
       << 4153, 4154 >>, << 4157, 4158 >>, << 4184, 4185 >>, << 4190, 4192 >>, << 4209, 4212 >>, << 4226, 4226 >>,
       << 4229, 4230 >>, << 4237, 4237 >>, << 4253, 4253 >>, << 4348, 4348 >>, << 4957, 4959 >>, << 5906, 5908 >>,
       << 5938, 5939 >>, << 5970, 5971 >>, << 6002, 6003 >>, << 6068, 6069 >>, << 6071, 6077 >>, << 6086, 6086 >> >>
    \o << << 6089, 6099 >>, << 6103, 6103 >>, << 6109, 6109 >>, << 6155, 6159 >>, << 6211, 6211 >>, << 6277, 6278 >>,
       << 6313, 6313 >>, << 6432, 6434 >>, << 6439, 6440 >>, << 6450, 6450 >>, << 6457, 6459 >>, << 6679, 6680 >>,
       << 6683, 6683 >>, << 6742, 6742 >>, << 6744, 6750 >>, << 6752, 6752 >>, << 6754, 6754 >>, << 6757, 6764 >>,
       << 6771, 6780 >>, << 6783, 6783 >>, << 6823, 6823 >>, << 6832, 6862 >>, << 6912, 6915 >>, << 6964, 6964 >>,
       << 6966, 6970 >>, << 6972, 6972 >>, << 6978, 6978 >>, << 7019, 7027 >>, << 7040, 7041 >>, << 7074, 7077 >>,
       << 7080, 7081 >>, << 7083, 7085 >>, << 7142, 7142 >>, << 7144, 7145 >>, << 7149, 7149 >>, << 7151, 7153 >>,
       << 7212, 7219 >>, << 7222, 7223 >>, << 7288, 7293 >>, << 7376, 7378 >>, << 7380, 7392 >>, << 7394, 7400 >>,
       << 7405, 7405 >>, << 7412, 7412 >>, << 7416, 7417 >>, << 7468, 7530 >>, << 7544, 7544 >>, << 7579, 7679 >> >>
    \o << << 8125, 8125 >>, << 8127, 8129 >>, << 8141, 8143 >>, << 8157, 8159 >>, << 8173, 8175 >>, << 8189, 8190 >>,
       << 8203, 8207 >>, << 8216, 8217 >>, << 8228, 8228 >>, << 8231, 8231 >>, << 8234, 8238 >>, << 8288, 8292 >>,
       << 8294, 8303 >>, << 8305, 8305 >>, << 8319, 8319 >>, << 8336, 8348 >>, << 8400, 8432 >>, << 11388, 11389 >>,
       << 11503, 11505 >>, << 11631, 11631 >>, << 11647, 11647 >>, << 11744, 11775 >>, << 11823, 11823 >>, << 12293, 12293 >>,
       << 12330, 12333 >>, << 12337, 12341 >>, << 12347, 12347 >>, << 12441, 12446 >>, << 12540, 12542 >>, << 40981, 40981 >>,
       << 42232, 42237 >>, << 42508, 42508 >>, << 42607, 42610 >>, << 42612, 42621 >>, << 42623, 42623 >>, << 42652, 42655 >>,
       << 42736, 42737 >>, << 42752, 42785 >>, << 42864, 42864 >>, << 42888, 42890 >>, << 42994, 42996 >>, << 43000, 43001 >>,
       << 43010, 43010 >>, << 43014, 43014 >>, << 43019, 43019 >>, << 43045, 43046 >>, << 43052, 43052 >>, << 43204, 43205 >> >>
    \o << << 43232, 43249 >>, << 43263, 43263 >>, << 43302, 43309 >>, << 43335, 43345 >>, << 43392, 43394 >>, << 43443, 43443 >>,
       << 43446, 43449 >>, << 43452, 43453 >>, << 43471, 43471 >>, << 43493, 43494 >>, << 43561, 43566 >>, << 43569, 43570 >>,
       << 43573, 43574 >>, << 43587, 43587 >>, << 43596, 43596 >>, << 43632, 43632 >>, << 43644, 43644 >>, << 43696, 43696 >>,
       << 43698, 43700 >>, << 43703, 43704 >>, << 43710, 43711 >>, << 43713, 43713 >>, << 43741, 43741 >>, << 43756, 43757 >>,
       << 43763, 43764 >>, << 43766, 43766 >>, << 43867, 43871 >>, << 43881, 43883 >>, << 44005, 44005 >>, << 44008, 44008 >>,
       << 44013, 44013 >>, << 64286, 64286 >>, << 64434, 64450 >>, << 65024, 65039 >>, << 65043, 65043 >>, << 65056, 65071 >>,
       << 65106, 65106 >>, << 65109, 65109 >>, << 65279, 65279 >>, << 65287, 65287 >>, << 65294, 65294 >>, << 65306, 65306 >>,
       << 65342, 65342 >>, << 65344, 65344 >>, << 65392, 65392 >>, << 65438, 65439 >>, << 65507, 65507 >>, << 65529, 65531 >> >>
    \o << << 66045, 66045 >>, << 66272, 66272 >>, << 66422, 66426 >>, << 67456, 67461 >>, << 67463, 67504 >>, << 67506, 67514 >>,
       << 68097, 68099 >>, << 68101, 68102 >>, << 68108, 68111 >>, << 68152, 68154 >>, << 68159, 68159 >>, << 68325, 68326 >>,
       << 68900, 68903 >>, << 69291, 69292 >>, << 69446, 69456 >>, << 69506, 69509 >>, << 69633, 69633 >>, << 69688, 69702 >>,
       << 69744, 69744 >>, << 69747, 69748 >>, << 69759, 69761 >>, << 69811, 69814 >>, << 69817, 69818 >>, << 69821, 69821 >>,
       << 69826, 69826 >>, << 69837, 69837 >>, << 69888, 69890 >>, << 69927, 69931 >>, << 69933, 69940 >>, << 70003, 70003 >>,
       << 70016, 70017 >>, << 70070, 70078 >>, << 70089, 70092 >>, << 70095, 70095 >>, << 70191, 70193 >>, << 70196, 70196 >>,
       << 70198, 70199 >>, << 70206, 70206 >>, << 70367, 70367 >>, << 70371, 70378 >>, << 70400, 70401 >>, << 70459, 70460 >>,
       << 70464, 70464 >>, << 70502, 70508 >>, << 70512, 70516 >>, << 70712, 70719 >>, << 70722, 70724 >>, << 70726, 70726 >> >>
    \o << << 70750, 70750 >>, << 70835, 70840 >>, << 70842, 70842 >>, << 70847, 70848 >>, << 70850, 70851 >>, << 71090, 71093 >>,
       << 71100, 71101 >>, << 71103, 71104 >>, << 71132, 71133 >>, << 71219, 71226 >>, << 71229, 71229 >>, << 71231, 71232 >>,
       << 71339, 71339 >>, << 71341, 71341 >>, << 71344, 71349 >>, << 71351, 71351 >>, << 71453, 71455 >>, << 71458, 71461 >>,
       << 71463, 71467 >>, << 71727, 71735 >>, << 71737, 71738 >>, << 71995, 71996 >>, << 71998, 71998 >>, << 72003, 72003 >>,
       << 72148, 72151 >>, << 72154, 72155 >>, << 72160, 72160 >>, << 72193, 72202 >>, << 72243, 72248 >>, << 72251, 72254 >>,
       << 72263, 72263 >>, << 72273, 72278 >>, << 72281, 72283 >>, << 72330, 72342 >>, << 72344, 72345 >>, << 72752, 72758 >>,
       << 72760, 72765 >>, << 72767, 72767 >>, << 72850, 72871 >>, << 72874, 72880 >>, << 72882, 72883 >>, << 72885, 72886 >>,
       << 73009, 73014 >>, << 73018, 73018 >>, << 73020, 73021 >>, << 73023, 73029 >>, << 73031, 73031 >>, << 73104, 73105 >> >>
    \o << << 73109, 73109 >>, << 73111, 73111 >>, << 73459, 73460 >>, << 78896, 78904 >>, << 92912, 92916 >>, << 92976, 92982 >>,
       << 92992, 92995 >>, << 94031, 94031 >>, << 94095, 94111 >>, << 94176, 94177 >>, << 94179, 94180 >>, << 110576, 110579 >>,
       << 110581, 110587 >>, << 110589, 110590 >>, << 113821, 113822 >>, << 113824, 113827 >>, << 118528, 118573 >>, << 118576, 118598 >>,
       << 119143, 119145 >>, << 119155, 119170 >>, << 119173, 119179 >>, << 119210, 119213 >>, << 119362, 119364 >>, << 121344, 121398 >>,
       << 121403, 121452 >>, << 121461, 121461 >>, << 121476, 121476 >>, << 121499, 121503 >>, << 121505, 121519 >>, << 122880, 122886 >>,
       << 122888, 122904 >>, << 122907, 122913 >>, << 122915, 122916 >>, << 122918, 122922 >>, << 123184, 123197 >>, << 123566, 123566 >>,
       << 123628, 123631 >>, << 125136, 125142 >>, << 125252, 125259 >>, << 127995, 127999 >>, << 917505, 917505 >>, << 917536, 917631 >>,
       << 917760, 917999 >> >>

\* c lies in one of the ranges
InRanges(c, ranges) ==
    \E k \in DOMAIN ranges : ranges[k][1] <= c /\ c <= ranges[k][2]

\* str.lower() on the one-character string of code point c: capital I with
\* dot above (304) becomes "i" and a combining dot, every other character one
\* character
LowerChar(c) ==
    LET hits == { k \in DOMAIN LowerRuns :
                    /\ LowerRuns[k][1] <= c
                    /\ c <= LowerRuns[k][2]
                    /\ (c - LowerRuns[k][1]) % LowerRuns[k][3] = 0 }
    IN IF c = 304 THEN << 105, 775 >>
       ELSE IF hits = {} THEN << c >>
       ELSE << c + LowerRuns[CHOOSE k \in hits : TRUE][4] >>

\* the capital sigma at str[i] ends a word: going back over case-ignorable
\* characters there is a cased one, going forward over them there is none
FinalSigma(str, i) ==
    LET before == { j \in 1..(i - 1) : ~InRanges(str[j], CaseIgnorableRanges) }
        after == { j \in (i + 1)..Len(str) : ~InRanges(str[j], CaseIgnorableRanges) }
        prev == CHOOSE j \in before : \A k \in before : k <= j
        next == CHOOSE j \in after : \A k \in after : j <= k
    IN /\ before # {}
       /\ InRanges(str[prev], CasedRanges)
       /\ (after = {} \/ ~InRanges(str[next], CasedRanges))

RECURSIVE LowerFrom(_, _)
\* the lowered characters of str from position i on
LowerFrom(str, i) ==
    IF i > Len(str) THEN << >>
    ELSE (IF str[i] = 931 /\ FinalSigma(str, i) THEN << 962 >> ELSE LowerChar(str[i]))
         \o LowerFrom(str, i + 1)

\* str.lower()
Lower(str) == LowerFrom(str, 1)

\* the characters str.strip() removes: those with str.isspace()
Whitespace ==
    (9..13) \cup (28..32) \cup { 133, 160, 5760 } \cup (8192..8202)
    \cup { 8232, 8233, 8239, 8287, 12288 }

RECURSIVE LStrip(_)
LStrip(str) ==
    IF str # << >> /\ Head(str) \in Whitespace THEN LStrip(Tail(str)) ELSE str

RECURSIVE RStrip(_)
RStrip(str) ==
    IF str # << >> /\ str[Len(str)] \in Whitespace
    THEN RStrip(SubSeq(str, 1, Len(str) - 1))
    ELSE str

\* str.strip()
Strip(str) == RStrip(LStrip(str))

\* sub in str
Contains(sub, str) ==
    \E i \in 0..(Len(str) - Len(sub)) : SubSeq(str, i + 1, i + Len(sub)) = sub

RECURSIVE StrLess(_, _)
\* a < b on str
StrLess(a, b) ==
    IF b = << >> THEN FALSE
    ELSE IF a = << >> THEN TRUE
    ELSE IF Head(a) # Head(b) THEN Head(a) < Head(b)
    ELSE StrLess(Tail(a), Tail(b))

RECURSIVE Sorted(_)
\* sorted(S) for a set of distinct strings
Sorted(S) ==
    IF S = {} THEN << >>
    ELSE LET x == CHOOSE y \in S : \A z \in S \ {y} : StrLess(y, z)
         IN << x >> \o Sorted(S \ {x})

(***************************************************************************)
(* fnmatch.fnmatch(name, pat), as fnmatch.translate reads a pattern.       *)
(* os.path.normcase leaves both strings as they are on POSIX.              *)
(***************************************************************************)
Star == 42

Question == 63

OpenBracket == 91

CloseBracket == 93

Bang == 33

Hyphen == 45

\* pat begins with "[": the index of the "]" that closes the class, 0 when
\* there is none; a "]" right after "[" or "[!" does not close it
ClassEnd(pat) ==
    LET n == Len(pat)
        j1 == IF 2 <= n /\ pat[2] = Bang THEN 3 ELSE 2
        j2 == IF j1 <= n /\ pat[j1] = CloseBracket THEN j1 + 1 ELSE j1
        closing == { j \in j2..n : pat[j] = CloseBracket }
    IN IF closing = {} THEN 0 ELSE CHOOSE j \in closing : \A k \in closing : j <= k

RECURSIVE ChunkSplit(_, _, _)
\* stuff cut at the hyphens that make ranges: the first hyphen at or after k
\* ends a chunk, the next chunk starts after it and the search goes on three
\* characters further
ChunkSplit(stuff, start, k) ==
    LET hyphens == { h \in k..Len(stuff) : stuff[h] = Hyphen }
    IN IF hyphens = {} THEN << SubSeq(stuff, start, Len(stuff)) >>
       ELSE LET h == CHOOSE x \in hyphens : \A y \in hyphens : x <= y
            IN << SubSeq(stuff, start, h - 1) >> \o ChunkSplit(stuff, h + 1, h + 3)

\* if chunk: chunks.append(chunk) else: chunks[-1] += '-'
CloseChunks(chunks) ==
    LET n == Len(chunks)
    IN IF chunks[n] # << >> THEN chunks
       ELSE [i \in 1..(n - 1) |->
               IF i = n - 1 THEN Append(chunks[i], Hyphen) ELSE chunks[i]]

RECURSIVE RemoveEmptyRanges(_)
\* from the last pair of chunks to the first: a range whose first character
\* is above its last is dropped and its two chunks are joined
RemoveEmptyRanges(chunks) ==
    IF Len(chunks) <= 1 THEN chunks
    ELSE LET rest == RemoveEmptyRanges(Tail(chunks))
             a == Head(chunks)
             b == Head(rest)
         IN IF a[Len(a)] > b[1]
            THEN << SubSeq(a, 1, Len(a) - 1) \o Tail(b) >> \o Tail(rest)
            ELSE << a >> \o rest

\* the character c matches the class [stuff].  The class is read after its
\* empty ranges are removed: it is negated when what is left begins with "!",
\* and the hyphen that joins a first chunk "!" to the next chunk is then a
\* character of the class ("[^-...]"), not a range
ClassMatches(stuff, c) ==
    LET chunks == IF Hyphen \notin Range(stuff) THEN << stuff >>
                  ELSE RemoveEmptyRanges(
                           CloseChunks(ChunkSplit(stuff, 1,
                                                  IF stuff[1] = Bang THEN 3 ELSE 2)))
        negated == chunks[1] # << >> /\ chunks[1][1] = Bang
        bare == negated /\ Len(chunks[1]) = 1 /\ Len(chunks) > 1
        listed == \/ \E k \in DOMAIN chunks : \E i \in DOMAIN chunks[k] :
                         /\ ~(negated /\ k = 1 /\ i = 1)
                         /\ chunks[k][i] = c
                  \/ bare /\ c = Hyphen
        ranged == \E k \in 1..(Len(chunks) - 1) :
                      /\ ~(bare /\ k = 1)
                      /\ chunks[k][Len(chunks[k])] <= c
                      /\ c <= chunks[k + 1][1]
    IN IF negated THEN ~(listed \/ ranged) ELSE listed \/ ranged

RECURSIVE fnmatch(_, _)
\* fnmatch.fnmatch(name, pat): "*" matches any run of characters, "?" any
\* one character, "[...]" one character of a class, a "[" that is not closed
\* and every other character itself
fnmatch(name, pat) ==
    IF pat = << >> THEN name = << >>
    ELSE IF Head(pat) = Star
         THEN \/ fnmatch(name, Tail(pat))
              \/ (name # << >> /\ fnmatch(Tail(name), pat))
    ELSE IF Head(pat) = Question
         THEN name # << >> /\ fnmatch(Tail(name), Tail(pat))
    ELSE IF Head(pat) = OpenBracket /\ ClassEnd(pat) # 0
         THEN /\ name # << >>
              /\ ClassMatches(SubSeq(pat, 2, ClassEnd(pat) - 1), Head(name))
              /\ fnmatch(Tail(name), SubSeq(pat, ClassEnd(pat) + 1, Len(pat)))
    ELSE /\ name # << >>
         /\ Head(name) = Head(pat)
         /\ fnmatch(Tail(name), Tail(pat))

\* an image kept only when every one of its tags matches a pattern
should_delete_UnlessAllMatch(tags, excluded_patterns) ==
    IF excluded_patterns = << >> THEN FALSE
    ELSE IF tags = << >> THEN TRUE
    ELSE ~\A t \in DOMAIN tags : \E q \in DOMAIN excluded_patterns :
            fnmatch(tags[t], excluded_patterns[q])

\* ECRManager._should_delete
should_delete(tags, excluded_patterns) ==
    IF excluded_patterns = << >> THEN FALSE
    ELSE IF tags = << >> THEN TRUE
    ELSE ~\E t \in DOMAIN tags, q \in DOMAIN excluded_patterns :
            fnmatch(tags[t], excluded_patterns[q])

\* ECRManager.get_repositories
get_repositories(filter) ==
    Sorted({ name \in { registry[i].repository : i \in DOMAIN registry } :
               filter = << >> \/ Contains(filter, name) })

\* the imageDetails describe_images pages through for one repository
describe_images(repo_name) ==
    SelectSeq(registry, LAMBDA r : r.repository = repo_name)

RECURSIVE Flatten(_)
Flatten(ss) == IF ss = << >> THEN << >> ELSE Head(ss) \o Flatten(Tail(ss))

\* ECRManager.find_deletable_images
find_deletable_images(filter, excluded_patterns) ==
    LET repos == get_repositories(filter)
    IN Flatten([i \in DOMAIN repos |->
                  SelectSeq(describe_images(repos[i]),
                            LAMBDA d : should_delete(d.tags, excluded_patterns))])

\* the slices repo_images[i : i + 100] for i in range(0, len(repo_images), 100)
Slices(repo_images) ==
    [k \in 1..((Len(repo_images) + BatchSize - 1) \div BatchSize) |->
        SubSeq(repo_images, (k - 1) * BatchSize + 1,
               Min(k * BatchSize, Len(repo_images)))]

\* ECRManager.delete_images: the batch_delete_image calls, in order
Batches(imgs) ==
    LET repos == Unique(Column(imgs, "repository"))
    IN Flatten([i \in DOMAIN repos |->
          LET repo_images == SelectSeq(imgs, LAMBDA x : x.repository = repos[i])
              slices == Slices(repo_images)
          IN [k \in DOMAIN slices |->
                [repositoryName |-> repos[i],
                 imageIds |-> Column(slices[k], "digest")]]])

\* an answer taken as consent unless it says no
Confirmed_UnlessNo(a) == a \notin { << 110, 111 >>, << 110 >> }

\* answer in ("yes", "y")
Confirmed(a) == a \in { << 121, 101, 115 >>, << 121 >> }

(***************************************************************************)
(* The environment of ecr_cleaner.py                                       *)
(***************************************************************************)
\* --exclude lists: none, "v*", "rc" and "?1", "*", "[!d]*", "[z-a!v]*"
ExcludeChoices ==
    { << >>,
      << << 118, 42 >> >>,
      << << 114, 99 >>, << 63, 49 >> >>,
      << << 42 >> >>,
      << << 91, 33, 100, 93, 42 >> >>,
      << << 91, 122, 45, 97, 33, 118, 93, 42 >> >> }

\* --filter: none, "app"
FilterChoices == { << >>, << 97, 112, 112 >> }

\* images of the repositories "webapp" and "db", tagged "v1", "rc" and "dev",
\* untagged, "dev"
ImagePool ==
    { [repository |-> << 119, 101, 98, 97, 112, 112 >>, digest |-> "sha256:a1",
       tags |-> << << 118, 49 >> >>],
      [repository |-> << 119, 101, 98, 97, 112, 112 >>, digest |-> "sha256:a2",
       tags |-> << << 114, 99 >>, << 100, 101, 118 >> >>],
      [repository |-> << 119, 101, 98, 97, 112, 112 >>, digest |-> "sha256:a3",
       tags |-> << >>],
      [repository |-> << 100, 98 >>, digest |-> "sha256:b1",
       tags |-> << << 100, 101, 118 >> >>] }

\* what is typed at the prompt: "yes", "y", "YES", " Y ", "y" and a form
\* feed, "no", "n", nothing, "ok", the Kelvin sign, "Y" and a capital sigma
RawAnswers ==
    { << 121, 101, 115 >>, << 121 >>, << 89, 69, 83 >>, << 32, 89, 32 >>, << 121, 12 >>,
      << 110, 111 >>, << 110 >>, << >>, << 111, 107 >>, << 8490 >>, << 89, 931 >> }

(***************************************************************************)
(* Actions of cmd_cleanup                                                  *)
(***************************************************************************)
\* if not args.exclude: logger.error(...); sys.exit(1)
CleanupNoExclude ==
    /\ ecr_pc = "start"
    /\ exclude = << >>
    /\ ecr_pc' = "exit_1"
    /\ UNCHANGED << exclude, dry_run, name_filter, registry, images, printed,
                    raw_answer, answer, pending, delete_calls >>
    /\ UNCHANGED gw_vars

\* images = mgr.find_deletable_images(...); if not images: print(...); return
CleanupNoImages ==
    /\ ecr_pc = "start"
    /\ exclude # << >>
    /\ find_deletable_images(name_filter, exclude) = << >>
    /\ images' = << >>
    /\ ecr_pc' = "no_images"
    /\ UNCHANGED << exclude, dry_run, name_filter, registry, printed,
                    raw_answer, answer, pending, delete_calls >>
    /\ UNCHANGED gw_vars

\* describe_repositories or describe_images raising inside
\* find_deletable_images: nothing catches it, the exception leaves cmd_cleanup
CleanupScanFail ==
    /\ ecr_pc = "start"
    /\ exclude # << >>
    /\ ecr_pc' = "failed"
    /\ UNCHANGED << exclude, dry_run, name_filter, registry, images, printed,
                    raw_answer, answer, pending, delete_calls >>
    /\ UNCHANGED gw_vars

\* images found: the list is printed
CleanupList ==
    /\ ecr_pc = "start"
    /\ exclude # << >>
    /\ find_deletable_images(name_filter, exclude) # << >>
    /\ images' = find_deletable_images(name_filter, exclude)
    /\ printed' = images'
    /\ ecr_pc' = "listed"
    /\ UNCHANGED << exclude, dry_run, name_filter, registry,
                    raw_answer, answer, pending, delete_calls >>
    /\ UNCHANGED gw_vars

\* if args.dry_run: print(...); return
CleanupDryRun ==
    /\ ecr_pc = "listed"
    /\ dry_run
    /\ ecr_pc' = "dry_run_done"
    /\ UNCHANGED << exclude, dry_run, name_filter, registry, images, printed,
                    raw_answer, answer, pending, delete_calls >>
    /\ UNCHANGED gw_vars

\* answer = input(...).strip().lower(); anything but yes/y aborts
CleanupAbort ==
    /\ ecr_pc = "listed"
    /\ ~dry_run
    /\ \E typed \in RawAnswers :
          /\ raw_answer' = typed
          /\ answer' = Lower(Strip(typed))
          /\ ~Confirmed(Lower(Strip(typed)))
    /\ ecr_pc' = "aborted"
    /\ UNCHANGED << exclude, dry_run, name_filter, registry, images, printed,
                    pending, delete_calls >>
    /\ UNCHANGED gw_vars

\* input() raising (end of input at the prompt): nothing catches it
CleanupNoInput ==
    /\ ecr_pc = "listed"
    /\ ~dry_run
    /\ ecr_pc' = "failed"
    /\ UNCHANGED << exclude, dry_run, name_filter, registry, images, printed,
                    raw_answer, answer, pending, delete_calls >>
    /\ UNCHANGED gw_vars

\* answer is yes or y: mgr.delete_images(images) is entered
CleanupConfirm ==
    /\ ecr_pc = "listed"
    /\ ~dry_run
    /\ \E typed \in RawAnswers :
          /\ raw_answer' = typed
          /\ answer' = Lower(Strip(typed))
          /\ Confirmed(Lower(Strip(typed)))
    /\ pending' = Batches(images)
    /\ ecr_pc' = "deleting"
    /\ UNCHANGED << exclude, dry_run, name_filter, registry, images, printed,
                    delete_calls >>
    /\ UNCHANGED gw_vars

\* one batch_delete_image call; an exception is logged and the loop goes on
DeleteBatch ==
    /\ ecr_pc = "deleting"
    /\ pending # << >>
    /\ delete_calls' = Append(delete_calls, Head(pending))
    /\ pending' = Tail(pending)
    /\ UNCHANGED << exclude, dry_run, name_filter, registry, ecr_pc, images, printed,
                    raw_answer, answer >>
    /\ UNCHANGED gw_vars

\* delete_images returns; print("Done.")
CleanupDone ==
    /\ ecr_pc = "deleting"
    /\ pending = << >>
    /\ ecr_pc' = "done"
    /\ UNCHANGED << exclude, dry_run, name_filter, registry, images, printed,
                    raw_answer, answer, pending, delete_calls >>
    /\ UNCHANGED gw_vars

InitEcr ==
    /\ exclude \in ExcludeChoices
    /\ dry_run \in BOOLEAN
    /\ name_filter \in FilterChoices
    /\ registry \in UNION { Orderings(S) : S \in KSubsets(ImagePool, MaxImages) }
    /\ ecr_pc = "start"
    /\ images = << >>
    /\ printed = << >>
    /\ raw_answer = << >>
    /\ answer = << >>
    /\ pending = << >>
    /\ delete_calls = << >>
    /\ GwIdle

NextEcr ==
    \/ CleanupNoExclude
    \/ CleanupNoImages
    \/ CleanupScanFail
    \/ CleanupList
    \/ CleanupDryRun
    \/ CleanupAbort
    \/ CleanupNoInput
    \/ CleanupConfirm
    \/ DeleteBatch
    \/ CleanupDone

SpecEcr == InitEcr /\ [][NextEcr]_vars

(***************************************************************************)
(* Properties of cmd_cleanup                                               *)
(***************************************************************************)
\* C10: batch_delete_image is called only with an --exclude pattern given,
\* without --dry-run, with images matched, after these images were listed and
\* the prompt was answered "yes" or "y"; and only listed images are deleted.
C10_DeleteOnlyWhenConfirmed ==
    (delete_calls # << >> \/ ecr_pc = "deleting") =>
        /\ exclude # << >>
        /\ ~dry_run
        /\ images # << >>
        /\ printed = images
        /\ answer \in { << 121, 101, 115 >>, << 121 >> }
        /\ \A c \in Range(delete_calls) :
              \A d \in Range(c.imageIds) :
                  \E i \in DOMAIN printed :
                      printed[i].digest = d /\ printed[i].repository = c.repositoryName

C10_Witness ==
    /\ ecr_pc = "done"
    /\ Len(delete_calls) = 2

\* some tag of the image matches some exclusion pattern
SomeTagMatches(tags, patterns) ==
    \E t \in Range(tags), q \in Range(patterns) : fnmatch(t, q)

\* C11: _should_delete is False for an empty pattern list; otherwise True for
\* an untagged image and, for a tagged one, True exactly when none of its tags
\* matches any pattern; find_deletable_images returns no image one of whose
\* tags matches an exclusion pattern.
C11_ShouldDelete ==
    /\ \A r \in Range(registry) :
          /\ exclude = << >> => ~should_delete(r.tags, exclude)
          /\ (exclude # << >> /\ r.tags = << >>) => should_delete(r.tags, exclude)
          /\ (exclude # << >> /\ r.tags # << >>) =>
                (should_delete(r.tags, exclude) <=> ~SomeTagMatches(r.tags, exclude))
    /\ \A i \in DOMAIN images : ~SomeTagMatches(images[i].tags, exclude)
    /\ \A i \in DOMAIN find_deletable_images(name_filter, exclude) :
          ~SomeTagMatches(find_deletable_images(name_filter, exclude)[i].tags, exclude)

\* an image with one matching and one other tag is kept while an untagged
\* image is listed
C11_Witness ==
    /\ ecr_pc = "listed"
    /\ \E r \in Range(registry) :
          /\ Len(r.tags) = 2
          /\ SomeTagMatches(r.tags, exclude)
          /\ \E t \in Range(r.tags) : ~SomeTagMatches(<< t >>, exclude)
          /\ r \notin Range(images)
    /\ \E i \in DOMAIN images : images[i].tags = << >>

\* C12: in every summary Idle_Periods <= Total_Periods and Idle_Percentage
\* (in hundredths of a percent) lies between 0 and 100 percent.
C12_IdleWithinTotal ==
    pc = "done" =>
        \A s \in Range(idle_analysis) :
            /\ 0 <= s.Idle_Periods
            /\ s.Idle_Periods <= s.Total_Periods
            /\ 0 <= s.Idle_Percentage
            /\ s.Idle_Percentage <= 100 * 100

\* a gateway with some idle and some busy periods
C12_Witness ==
    /\ pc = "done"
    /\ \E s \in Range(idle_analysis) :
          /\ 0 < s.Idle_Periods
          /\ s.Idle_Periods < s.Total_Periods
          /\ 0 < s.Idle_Percentage
          /\ s.Idle_Percentage < 100 * 100

\* C13: in a run over a non-empty range every row of the table, the synthetic
\* zero rows included, is stamped with a multiple of the 21600-second period.
C13_RowsPeriodAligned ==
    start_time < end_time =>
        \A i \in DOMAIN results : results[i].Timestamp % PERIOD_SECONDS = 0

\* C14: with end < start the chunker issues no fetch and does not return
\* normally: the loop over the first NAT gateway never gets past its first
\* metric.
C14_ReversedRangeRejected ==
    (end_time < start_time /\ nats # << >>) =>
        /\ \A c \in Range(calls) : c.op # "get_metric_statistics"
        /\ phase = "NAT" /\ gi = 1 /\ mi = 1
        /\ ~Collected

\* C15: when a fetch fails while one gateway is collected, every other
\* enumerated gateway still has its rows in the table and its summary.
C15_OtherGatewaysSurvive ==
    pc = "failed" =>
        \A id \in (Range(nats) \cup Range(igws)) \ { CurGateway } :
            /\ \E i \in DOMAIN results : results[i].Gateway_ID = id
            /\ \E i \in DOMAIN idle_analysis : idle_analysis[i].Gateway_ID = id

====
